---------------------------- MODULE Spec2Model ----------------------------
(***************************************************************************)
(* A model of the Snake game repository: the A* planner                    *)
(* (src/src/helper/snakeHelper.ts) and the four React components that      *)
(* drive it: SnakeGame (solo, src/unnamed/part_001), SnakeTwo (two         *)
(* players, src/unnamed/part_002), SnakeWithAi and AiSnake                 *)
(* (src/unnamed/part_003).                                                 *)
(*                                                                         *)
(* Conventions.  Rows and columns are 0-based as in the source.  A Coord   *)
(* is a record [row, col]; the `type` tag a body segment carries in the    *)
(* source is constant per snake and never read back, so it is left out.    *)
(* `null` food is the record NULL.  A board is a function                  *)
(* row -> (col -> CellType); the empty array [] is << >>.                  *)
(***************************************************************************)
EXTENDS Integers, Sequences, FiniteSets, TLC

VARIABLES
    variant,        \* which component is mounted: "SOLO", "TWO", "AI", "WITH_AI", or "PLAN"
    mounted,        \* FALSE until the mount effects have run
    board,          \* useState board
    snake,          \* useState snake (SnakeGame, AiSnake, SnakeWithAi) / snakeOne (SnakeTwo)
    userSnake,      \* useState userSnake (SnakeWithAi) / snakeTwo (SnakeTwo)
    food,           \* useState food
    direction,      \* useState direction / directionOne / aiDirection
    userDirection,  \* useState userDirection / directionTwo
    changed,        \* the state slots the last commit replaced, whose effects have not run yet
    timer,          \* TRUE while a tick timer (setTimeout / setInterval) is pending
    closure,        \* the state the pending timer's callback closed over
    nextDir,        \* result of the last findShortestWayToFood call
    outcome,        \* what the last tick did to each agent (the console.log lines)
    gameOver        \* the console holds a "Game Over" line (SnakeGame, AiSnake)

vars == <<variant, mounted, board, snake, userSnake, food, direction,
          userDirection, changed, timer, closure, nextDir, outcome, gameOver>>

-----------------------------------------------------------------------------
(* Bounds of the model *)

\* Planner inputs: boards of PLAN_ROWS x PLAN_COLS with at most MaxBlocked blocked cells.
PLAN_ROWS == 3
PLAN_COLS == 4
MaxBlocked == 3

\* Board of SnakeGame, AiSnake and SnakeWithAi (const/SnakeConsts, not among the
\* sources; the spec gives 20 x 20 "and similar"), scaled down.
BOARD_I_LENGTH == 2
BOARD_J_LENGTH == 3

\* Board of SnakeTwo (20 x 20 in the source), scaled down.  The spawn cells
\* (column 2 and column BOARD_COLS - 3) stay distinct; with 3 columns player
\* one spawns next to the right wall and player two next to the left one.
BOARD_ROWS == 2
BOARD_COLS == 3

\* In the two-snake games a tick that would make a snake longer than this is
\* not explored.
MaxLenDuo == 3

-----------------------------------------------------------------------------
(* enums/Snake.ts *)

EMPTY == "EMPTY"
SNAKE == "SNAKE"
FOOD == "FOOD"
AI_SNAKE == "AI_SNAKE"
USER_SNAKE == "USER_SNAKE"
PLAYER_ONE == "PLAYER_ONE"
PLAYER_TWO == "PLAYER_TWO"

UP == "UP"
DOWN == "DOWN"
LEFT == "LEFT"
RIGHT == "RIGHT"
Direction == {UP, DOWN, LEFT, RIGHT}

\* JavaScript null for a Coord | null and for a Direction | null.
NULL == [row |-> -1, col |-> -1]
NullDir == "null"
\* An uncaught TypeError (reading a property of null).
TypeError == "TypeError"

Coord(r, c) == [row |-> r, col |-> c]

-----------------------------------------------------------------------------
(* helper/snakeHelper.ts : findShortestWayToFood *)

Abs(x) == IF x < 0 THEN -x ELSE x

boardRows(b) == Cardinality(DOMAIN b)
boardCols(b) == IF boardRows(b) = 0 THEN 0 ELSE Cardinality(DOMAIN b[0])

\* Mutant: the occupancy tag is not looked at.
isValid_boundsOnly(b, row, col) ==
    ~(row < 0 \/ row >= boardRows(b) \/ col < 0 \/ col >= boardCols(b))

isValid(b, row, col) ==
    IF row < 0 \/ row >= boardRows(b) \/ col < 0 \/ col >= boardCols(b)
    THEN FALSE
    ELSE b[row][col] = EMPTY \/ b[row][col] = FOOD

heuristic(f, row, col) == Abs(row - f.row) + Abs(col - f.col)

\* `${row}-${col}`: one string per pair of non-negative numbers.
coordKey(row, col) == <<row, col>>

\* The moves array with the horizontal moves first.
moves_horizontalFirst ==
    << [dir |-> LEFT,  rowDelta |-> 0,  colDelta |-> -1],
       [dir |-> RIGHT, rowDelta |-> 0,  colDelta |-> 1],
       [dir |-> UP,    rowDelta |-> -1, colDelta |-> 0],
       [dir |-> DOWN,  rowDelta |-> 1,  colDelta |-> 0] >>

moves == << [dir |-> UP,    rowDelta |-> -1, colDelta |-> 0],
            [dir |-> DOWN,  rowDelta |-> 1,  colDelta |-> 0],
            [dir |-> LEFT,  rowDelta |-> 0,  colDelta |-> -1],
            [dir |-> RIGHT, rowDelta |-> 0,  colDelta |-> 1] >>

\* Mutant: the comparator reversed (b.f - a.f).
RECURSIVE InsertByF_reversed(_, _)
InsertByF_reversed(n, s) ==
    IF s = << >> THEN <<n>>
    ELSE IF Head(s).f >= n.f THEN <<Head(s)>> \o InsertByF_reversed(n, Tail(s))
    ELSE <<n>> \o s

\* Array.prototype.sort((a, b) => a.f - b.f): a stable sort by f.
RECURSIVE InsertByF(_, _)
InsertByF(n, s) ==
    IF s = << >> THEN <<n>>
    ELSE IF Head(s).f <= n.f THEN <<Head(s)>> \o InsertByF(n, Tail(s))
    ELSE <<n>> \o s

RECURSIVE SortByF(_)
SortByF(s) ==
    IF s = << >> THEN << >>
    ELSE InsertByF(s[Len(s)], SortByF(SubSeq(s, 1, Len(s) - 1)))

\* A find that never finds the coordinate.
FindOpen_none(openSet, row, col) == 0

\* openSet.find(n => n.row === newRow && n.col === newCol): index of the first match, 0 if none.
FindOpen(openSet, row, col) ==
    LET hits == {i \in 1..Len(openSet) : openSet[i].row = row /\ openSet[i].col = col}
    IN  IF hits = {} THEN 0 ELSE CHOOSE i \in hits : \A j \in hits : i <= j

\* One pass of the `for (const move of moves)` loop body for moves[k..4].
RECURSIVE Expand(_, _, _, _, _, _)
Expand(b, f, current, closedSet, openSet, k) ==
    IF k > Len(moves) THEN openSet
    ELSE
        LET newRow == current.row + moves[k].rowDelta
            newCol == current.col + moves[k].colDelta
            tentativeG == current.g + 1
            idx == FindOpen(openSet, newRow, newCol)
            nextOpen ==
                IF ~isValid(b, newRow, newCol) THEN openSet
                ELSE IF coordKey(newRow, newCol) \in closedSet THEN openSet
                ELSE IF idx = 0 THEN
                    Append(openSet,
                           [row |-> newRow, col |-> newCol, g |-> tentativeG,
                            h |-> heuristic(f, newRow, newCol),
                            f |-> tentativeG + heuristic(f, newRow, newCol),
                            parent |-> Coord(current.row, current.col)])
                ELSE IF tentativeG < openSet[idx].g THEN
                    [openSet EXCEPT ![idx] =
                        [@ EXCEPT !.g = tentativeG,
                                  !.f = tentativeG + openSet[idx].h,
                                  !.parent = Coord(current.row, current.col)]]
                ELSE openSet
        IN  Expand(b, f, current, closedSet, nextOpen, k + 1)

\* The node popped for a coordinate; nodes are never changed once popped.
ClosedNode(closedNodes, c) ==
    CHOOSE n \in closedNodes : n.row = c.row /\ n.col = c.col

\* while (temp) { path.push(temp); temp = temp.parent } ; path.reverse()
RECURSIVE PathTo(_, _)
PathTo(closedNodes, n) ==
    IF n.parent = NULL THEN <<n>>
    ELSE Append(PathTo(closedNodes, ClosedNode(closedNodes, n.parent)), n)

FirstMove(start, path) ==
    IF Len(path) < 2 THEN NullDir
    ELSE LET nextStep == path[2]
         IN  IF nextStep.row < start.row THEN UP
             ELSE IF nextStep.row > start.row THEN DOWN
             ELSE IF nextStep.col < start.col THEN LEFT
             ELSE IF nextStep.col > start.col THEN RIGHT
             ELSE "fallthrough"

\* The A* search loop: openSet is the array, closedSet the set of keys,
\* closedNodes the popped nodes (reached through parent links).
RECURSIVE SearchLoop(_, _, _, _, _, _)
SearchLoop(b, start, f, openSet, closedSet, closedNodes) ==
    IF Len(openSet) = 0 THEN NullDir
    ELSE
        LET sorted == SortByF(openSet)
            current == Head(sorted)
            rest == Tail(sorted)
            closed2 == closedSet \cup {coordKey(current.row, current.col)}
            nodes2 == closedNodes \cup {current}
            reached == current.row = f.row /\ current.col = f.col
            move1 == IF reached THEN FirstMove(start, PathTo(nodes2, current))
                     ELSE "fallthrough"
        IN  IF reached /\ move1 # "fallthrough" THEN move1
            ELSE SearchLoop(b, start, f,
                            Expand(b, f, current, closed2, rest, 1),
                            closed2, nodes2)

\* A planner that gives up when the origin cell is not passable.
findShortestWayToFood_originChecked(b, s, f) ==
    IF Len(s) = 0 THEN NullDir
    ELSE IF f = NULL THEN TypeError
    ELSE IF ~isValid(b, s[1].row, s[1].col) THEN NullDir
    ELSE
        LET start == s[1]
            startNode == [row |-> start.row, col |-> start.col, g |-> 0,
                          h |-> heuristic(f, start.row, start.col),
                          f |-> heuristic(f, start.row, start.col),
                          parent |-> NULL]
        IN  SearchLoop(b, start, f, <<startNode>>, {}, {})

\* The iterations of the search loop, one record per pass of the while body:
\* the key added to closedSet, and openSet and closedSet at the end of the pass.
RECURSIVE SearchRun(_, _, _, _, _, _, _)
SearchRun(b, start, f, openSet, closedSet, closedNodes, run) ==
    IF Len(openSet) = 0 THEN run
    ELSE
        LET sorted == SortByF(openSet)
            current == Head(sorted)
            rest == Tail(sorted)
            closed2 == closedSet \cup {coordKey(current.row, current.col)}
            nodes2 == closedNodes \cup {current}
            reached == current.row = f.row /\ current.col = f.col
            move1 == IF reached THEN FirstMove(start, PathTo(nodes2, current))
                     ELSE "fallthrough"
            open2 == Expand(b, f, current, closed2, rest, 1)
        IN  IF reached /\ move1 # "fallthrough"
            THEN Append(run, [popped |-> coordKey(current.row, current.col),
                              openSet |-> rest, closedSet |-> closed2])
            ELSE SearchRun(b, start, f, open2, closed2, nodes2,
                           Append(run, [popped |-> coordKey(current.row, current.col),
                                        openSet |-> open2, closedSet |-> closed2]))

\* The iterations of findShortestWayToFood(b, s, f) for a non-empty s.
SearchRunOf(b, s, f) ==
    LET start == s[1]
        startNode == [row |-> start.row, col |-> start.col, g |-> 0,
                      h |-> heuristic(f, start.row, start.col),
                      f |-> heuristic(f, start.row, start.col),
                      parent |-> NULL]
    IN  SearchRun(b, start, f, <<startNode>>, {}, {}, << >>)

findShortestWayToFood(b, s, f) ==
    IF Len(s) = 0 THEN NullDir
    ELSE IF f = NULL THEN TypeError   \* heuristic() reads food.row
    ELSE
        LET start == s[1]
            startNode == [row |-> start.row, col |-> start.col, g |-> 0,
                          h |-> heuristic(f, start.row, start.col),
                          f |-> heuristic(f, start.row, start.col),
                          parent |-> NULL]
        IN  SearchLoop(b, start, f, <<startNode>>, {}, {})

-----------------------------------------------------------------------------
(* Pieces the four components repeat verbatim *)

\* const newHead = {...head}; switch (direction) { ... }
NewHead(head, dir) ==
    IF dir = UP THEN Coord(head.row - 1, head.col)
    ELSE IF dir = DOWN THEN Coord(head.row + 1, head.col)
    ELSE IF dir = LEFT THEN Coord(head.row, head.col - 1)
    ELSE IF dir = RIGHT THEN Coord(head.row, head.col + 1)
    ELSE head

\* A wall test that forgets the columns.
HitsWall_rowsOnly(h, rows, cols) == h.row < 0 \/ h.row >= rows

\* newHead.row < 0 || newHead.row >= rows || newHead.col < 0 || newHead.col >= cols
HitsWall(h, rows, cols) ==
    h.row < 0 \/ h.row >= rows \/ h.col < 0 \/ h.col >= cols

\* s.some(seg => seg.row === h.row && seg.col === h.col)
\* A collision test that lets the head enter the tail cell.
Some_butLast(s, h) == \E i \in 1..(Len(s) - 1) : s[i].row = h.row /\ s[i].col = h.col

\* A collision test that looks at the head only.
Some_headOnly(s, h) == Len(s) > 0 /\ s[1].row = h.row /\ s[1].col = h.col

Some(s, h) == \E i \in 1..Len(s) : s[i].row = h.row /\ s[i].col = h.col

\* food !== null && newHead.row === food.row && newHead.col === food.col
AteFood(f, h) == f # NULL /\ h.row = f.row /\ h.col = f.col

\* [newHead, ...snake]  and  [newHead, ...snake.slice(0, snake.length - 1)]
Advance(s, h, ate) ==
    IF ate THEN <<h>> \o s ELSE <<h>> \o SubSeq(s, 1, Len(s) - 1)

\* A rows x cols matrix of EMPTY cells.
initBoardOf(rows, cols) ==
    [r \in 0..(rows - 1) |-> [c \in 0..(cols - 1) |-> EMPTY]]

\* The cells no segment of s1 or s2 occupies (placeFood's emptyCells).
EmptyCells(rows, cols, s1, s2) ==
    {c \in {Coord(i, j) : i \in 0..(rows - 1), j \in 0..(cols - 1)} :
        ~Some(s1, c) /\ ~Some(s2, c)}

\* A cleared board with the cells of s1 painted t1, then those of s2 painted
\* t2, then the food cell painted FOOD.
Paint(rows, cols, s1, t1, s2, t2, f) ==
    [r \in 0..(rows - 1) |->
        [c \in 0..(cols - 1) |->
            IF f # NULL /\ f = Coord(r, c) THEN FOOD
            ELSE IF Some(s2, Coord(r, c)) THEN t2
            ELSE IF Some(s1, Coord(r, c)) THEN t1
            ELSE EMPTY]]

\* The committed state as a render's closures see it.
Render == [snake |-> snake, userSnake |-> userSnake, food |-> food,
           direction |-> direction, userDirection |-> userDirection]

NoOutcome == <<"none", "none">>

-----------------------------------------------------------------------------
(* SnakeGame (solo) : src/unnamed/part_001 *)

SoloSpawn == Coord(BOARD_I_LENGTH \div 2, BOARD_J_LENGTH \div 2)

\* First render's effects, in source order: game loop (timer over the initial
\* closure), initBoard + initSnake, food effect (board is still [] in this
\* render's closure: nothing), keyboard.
SnakeGame_Mount ==
    /\ variant = "SOLO" /\ ~mounted
    /\ mounted' = TRUE
    /\ timer' = TRUE
    /\ closure' = Render
    /\ board' = initBoardOf(BOARD_I_LENGTH, BOARD_J_LENGTH)
    /\ snake' = <<SoloSpawn>>
    /\ changed' = {"board", "snake"}
    /\ outcome' = NoOutcome
    /\ UNCHANGED <<variant, gameOver, userSnake, food, direction, userDirection, nextDir>>

\* placeFood(): the board it stores is cleared, with only the food painted.
SnakeGame_placeFood ==
    LET emptyCells == EmptyCells(BOARD_I_LENGTH, BOARD_J_LENGTH, snake, << >>)
    IN  IF emptyCells = {}
        THEN /\ changed' = {}
             /\ UNCHANGED <<board, food>>
        ELSE \E cell \in emptyCells :
                /\ board' = Paint(boardRows(board), boardCols(board),
                                  << >>, SNAKE, << >>, SNAKE, cell)
                /\ food' = cell
                /\ changed' = {"board", "food"}

\* The effects of a re-render whose dependencies changed: the game loop
\* ([snake, direction]), the food effect ([board, snake, food]); the keyboard
\* effect ([direction]) re-registers the handler over the current direction.
SnakeGame_Effects ==
    /\ variant = "SOLO" /\ mounted /\ changed # {}
    /\ IF changed \cap {"snake", "direction"} # {}
       THEN timer' = TRUE /\ closure' = Render
       ELSE UNCHANGED <<timer, closure>>
    /\ IF changed \cap {"board", "snake", "food"} # {}
          /\ food = NULL /\ boardRows(board) > 0
       THEN SnakeGame_placeFood
       ELSE changed' = {} /\ UNCHANGED <<board, food>>
    /\ outcome' = NoOutcome
    /\ UNCHANGED <<variant, gameOver, mounted, snake, userSnake, direction, userDirection, nextDir>>

\* A timer callback that moves with some heading, whatever the state holds.
SnakeGame_move_anyHeading ==
    /\ variant = "SOLO" /\ mounted /\ changed = {} /\ timer
    /\ timer' = FALSE
    /\ IF Len(closure.snake) = 0
       THEN /\ outcome' = <<"empty", "none">>
            /\ UNCHANGED <<board, snake, food, changed>>
       ELSE
        \E heading \in {UP, DOWN, LEFT, RIGHT} :
        LET newHead == NewHead(closure.snake[1], heading)
            ateFood == AteFood(closure.food, newHead)
            newSnake == Advance(closure.snake, newHead, ateFood)
        IN  IF HitsWall(newHead, BOARD_I_LENGTH, BOARD_J_LENGTH)
            THEN /\ outcome' = <<"wall", "none">>
                 /\ UNCHANGED <<board, snake, food, changed>>
            ELSE IF Some(closure.snake, newHead)
            THEN /\ outcome' = <<"self", "none">>
                 /\ UNCHANGED <<board, snake, food, changed>>
            ELSE /\ snake' = newSnake
                 /\ food' = IF ateFood THEN NULL ELSE food
                 /\ board' = Paint(boardRows(board), boardCols(board),
                                   newSnake, SNAKE, << >>, SNAKE,
                                   IF ateFood THEN NULL ELSE closure.food)
                 /\ changed' = {"snake", "board"} \cup (IF ateFood THEN {"food"} ELSE {})
                 /\ outcome' = <<IF ateFood THEN "grew" ELSE "moved", "none">>
    /\ gameOver' = (gameOver \/ outcome'[1] \in {"wall", "self"})
    /\ UNCHANGED <<variant, mounted, userSnake, direction, userDirection, closure, nextDir>>

\* A timer callback that clears the board on a collision, as AiSnake's does.
SnakeGame_move_clearsBoard ==
    /\ variant = "SOLO" /\ mounted /\ changed = {} /\ timer
    /\ timer' = FALSE
    /\ IF Len(closure.snake) = 0
       THEN /\ outcome' = <<"empty", "none">>
            /\ UNCHANGED <<board, snake, food, changed>>
       ELSE
        LET newHead == NewHead(closure.snake[1], closure.direction)
            ateFood == AteFood(closure.food, newHead)
            newSnake == Advance(closure.snake, newHead, ateFood)
        IN  IF HitsWall(newHead, BOARD_I_LENGTH, BOARD_J_LENGTH)
               \/ Some(closure.snake, newHead)
            THEN /\ outcome' = <<IF HitsWall(newHead, BOARD_I_LENGTH, BOARD_J_LENGTH)
                                 THEN "wall" ELSE "self", "none">>
                 /\ board' = initBoardOf(BOARD_I_LENGTH, BOARD_J_LENGTH)
                 /\ changed' = {"board"}
                 /\ UNCHANGED <<snake, food>>
            ELSE /\ snake' = newSnake
                 /\ food' = IF ateFood THEN NULL ELSE food
                 /\ board' = Paint(boardRows(board), boardCols(board),
                                   newSnake, SNAKE, << >>, SNAKE,
                                   IF ateFood THEN NULL ELSE closure.food)
                 /\ changed' = {"snake", "board"} \cup (IF ateFood THEN {"food"} ELSE {})
                 /\ outcome' = <<IF ateFood THEN "grew" ELSE "moved", "none">>
    /\ gameOver' = (gameOver \/ outcome'[1] \in {"wall", "self"})
    /\ UNCHANGED <<variant, mounted, userSnake, direction, userDirection, closure, nextDir>>

\* The timer callback: move(), over the closure of the render that set the timer.
SnakeGame_move ==
    /\ variant = "SOLO" /\ mounted /\ changed = {} /\ timer
    /\ timer' = FALSE
    /\ IF Len(closure.snake) = 0
       THEN /\ outcome' = <<"empty", "none">>
            /\ UNCHANGED <<board, snake, food, changed>>
       ELSE
        LET newHead == NewHead(closure.snake[1], closure.direction)
            ateFood == AteFood(closure.food, newHead)
            newSnake == Advance(closure.snake, newHead, ateFood)
        IN  IF HitsWall(newHead, BOARD_I_LENGTH, BOARD_J_LENGTH)
            THEN /\ outcome' = <<"wall", "none">>
                 /\ UNCHANGED <<board, snake, food, changed>>
            ELSE IF Some(closure.snake, newHead)
            THEN /\ outcome' = <<"self", "none">>
                 /\ UNCHANGED <<board, snake, food, changed>>
            ELSE /\ snake' = newSnake
                 /\ food' = IF ateFood THEN NULL ELSE food
                 /\ board' = Paint(boardRows(board), boardCols(board),
                                   newSnake, SNAKE, << >>, SNAKE,
                                   IF ateFood THEN NULL ELSE closure.food)
                 /\ changed' = {"snake", "board"} \cup (IF ateFood THEN {"food"} ELSE {})
                 /\ outcome' = <<IF ateFood THEN "grew" ELSE "moved", "none">>
    \* console.log("Game Over: ...") on a wall or self collision
    /\ gameOver' = (gameOver \/ outcome'[1] \in {"wall", "self"})
    /\ UNCHANGED <<variant, mounted, userSnake, direction, userDirection, closure, nextDir>>

\* handleKeyDown: an arrow key sets the direction unless it is the opposite
\* of the current one.  A key event is a discrete event: React renders and
\* runs the effects of its update before the event returns, so the effects
\* are part of this step.
SnakeGame_handleKeyDown ==
    /\ variant = "SOLO" /\ mounted /\ changed = {}
    /\ \E key \in {"ArrowUp", "ArrowDown", "ArrowLeft", "ArrowRight"} :
          LET want == IF key = "ArrowUp" THEN UP
                      ELSE IF key = "ArrowDown" THEN DOWN
                      ELSE IF key = "ArrowLeft" THEN LEFT
                      ELSE RIGHT
              barred == IF key = "ArrowUp" THEN DOWN
                        ELSE IF key = "ArrowDown" THEN UP
                        ELSE IF key = "ArrowLeft" THEN RIGHT
                        ELSE LEFT
          IN  /\ direction # barred
              /\ direction # want       \* setDirection to the same value: no re-render
              /\ direction' = want
              \* the game loop effect ([snake, direction]) runs again
              /\ timer' = TRUE
              /\ closure' = [Render EXCEPT !.direction = want]
    /\ outcome' = NoOutcome
    /\ UNCHANGED <<variant, gameOver, mounted, board, snake, userSnake, food,
                   userDirection, changed, nextDir>>

-----------------------------------------------------------------------------
(* AiSnake (AI only) : src/unnamed/part_003, second component *)

AiSpawn == Coord(BOARD_I_LENGTH \div 2, BOARD_J_LENGTH \div 2)

\* A fallback to the initial heading instead of the kept one.
moveDirOf_initial(nextDirNow, dir) ==
    IF nextDirNow # NullDir THEN nextDirNow ELSE RIGHT

\* const moveDir = nextDir ? nextDir : direction;
moveDirOf(nextDirNow, dir) ==
    IF nextDirNow # NullDir THEN nextDirNow ELSE dir

\* A pathfinding board that marks the food only.
getPathfindingBoard_foodOnly(s1, s2, f) ==
    Paint(BOARD_I_LENGTH, BOARD_J_LENGTH, << >>, SNAKE, << >>, SNAKE, f)

\* getPathfindingBoard(): SNAKE where a segment of either snake lies, FOOD
\* (painted last) on the food cell, EMPTY elsewhere.
getPathfindingBoard(s1, s2, f) ==
    Paint(BOARD_I_LENGTH, BOARD_J_LENGTH, s1, SNAKE, s2, SNAKE, f)

\* First render's effects: game loop, initBoard + initSnake, food effect
\* (board.length is 0 in this render's closure: nothing).
AiSnake_Mount ==
    /\ variant = "AI" /\ ~mounted
    /\ mounted' = TRUE
    /\ timer' = TRUE
    /\ closure' = Render
    /\ board' = initBoardOf(BOARD_I_LENGTH, BOARD_J_LENGTH)
    /\ snake' = <<AiSpawn>>
    /\ changed' = {"board", "snake"}
    /\ outcome' = NoOutcome
    /\ UNCHANGED <<variant, gameOver, userSnake, food, direction, userDirection, nextDir>>

AiSnake_placeFood ==
    LET emptyCells == EmptyCells(BOARD_I_LENGTH, BOARD_J_LENGTH, snake, << >>)
    IN  IF emptyCells = {}
        THEN /\ changed' = {}
             /\ UNCHANGED <<board, food>>
        ELSE \E cell \in emptyCells :
                /\ board' = Paint(boardRows(board), boardCols(board),
                                  << >>, SNAKE, << >>, SNAKE, cell)
                /\ food' = cell
                /\ changed' = {"board", "food"}

\* Game loop effect on [snake, food, direction]; food effect on [board, snake, food].
AiSnake_Effects ==
    /\ variant = "AI" /\ mounted /\ changed # {}
    /\ IF changed \cap {"snake", "food", "direction"} # {}
       THEN timer' = TRUE /\ closure' = Render
       ELSE UNCHANGED <<timer, closure>>
    /\ IF changed \cap {"board", "snake", "food"} # {}
          /\ food = NULL /\ boardRows(board) > 0
       THEN AiSnake_placeFood
       ELSE changed' = {} /\ UNCHANGED <<board, food>>
    /\ outcome' = NoOutcome
    /\ UNCHANGED <<variant, gameOver, mounted, snake, userSnake, direction, userDirection, nextDir>>

\* The timer callback after its planner call returned nextDirNow:
\* setDirection(moveDir), move(moveDir).
AiSnake_TickWith(nextDirNow) ==
    /\ variant = "AI" /\ mounted /\ changed = {} /\ timer
    /\ timer' = FALSE
    /\ LET moveDir == moveDirOf(nextDirNow, closure.direction)
           dirChanged == IF moveDir # direction THEN {"direction"} ELSE {}
       IN  /\ nextDir' = nextDirNow
           /\ IF nextDirNow = TypeError
              THEN /\ outcome' = <<"error", "none">>
                   /\ UNCHANGED <<board, snake, food, direction, changed>>
              ELSE
               /\ direction' = moveDir
               /\ IF Len(closure.snake) = 0
                  THEN /\ outcome' = <<"empty", "none">>
                       /\ changed' = dirChanged
                       /\ UNCHANGED <<board, snake, food>>
                  ELSE
                   LET newHead == NewHead(closure.snake[1], moveDir)
                       ateFood == AteFood(closure.food, newHead)
                       newSnake == Advance(closure.snake, newHead, ateFood)
                   IN  IF HitsWall(newHead, BOARD_I_LENGTH, BOARD_J_LENGTH)
                       THEN /\ outcome' = <<"wall", "none">>
                            /\ changed' = dirChanged
                            /\ UNCHANGED <<board, snake, food>>
                       ELSE IF Some(closure.snake, newHead)
                       THEN \* initBoard(); initSnake();
                            /\ outcome' = <<"self", "none">>
                            /\ board' = initBoardOf(BOARD_I_LENGTH, BOARD_J_LENGTH)
                            /\ snake' = <<AiSpawn>>
                            /\ changed' = dirChanged \cup {"board", "snake"}
                            /\ UNCHANGED food
                       ELSE /\ snake' = newSnake
                            /\ food' = IF ateFood THEN NULL ELSE food
                            /\ board' = Paint(boardRows(board), boardCols(board),
                                              newSnake, SNAKE, << >>, SNAKE,
                                              IF ateFood THEN NULL ELSE closure.food)
                            /\ changed' = dirChanged \cup {"snake", "board"}
                                             \cup (IF ateFood THEN {"food"} ELSE {})
                            /\ outcome' = <<IF ateFood THEN "grew" ELSE "moved", "none">>
    \* console.log("Game Over: ...") on a wall or self collision
    /\ gameOver' = (gameOver \/ outcome'[1] \in {"wall", "self"})
    /\ UNCHANGED <<variant, mounted, userSnake, userDirection, closure>>

\* The timer callback: plan, setDirection(moveDir), move(moveDir).
AiSnake_Tick ==
    AiSnake_TickWith(findShortestWayToFood(
                        getPathfindingBoard(closure.snake, << >>, closure.food),
                        closure.snake, closure.food))

-----------------------------------------------------------------------------
(* SnakeTwo (two players) : src/unnamed/part_002 *)
(* snake is snakeOne, userSnake is snakeTwo, direction is directionOne,    *)
(* userDirection is directionTwo.                                          *)

SpawnOne == Coord(BOARD_ROWS \div 2, 2)
SpawnTwo == Coord(BOARD_ROWS \div 2, BOARD_COLS - 3)

\* moveSnake(snake, direction, selfType): the new body, or NoBody for the
\* `null` it returns on a wall or self collision.
NoBody == <<NULL>>

\* A moveSnake that tests the wall only.
moveSnake_wallOnly(s, dir, f) ==
    IF Len(s) = 0 THEN s
    ELSE LET newHead == NewHead(s[1], dir)
         IN  IF HitsWall(newHead, BOARD_ROWS, BOARD_COLS) THEN NoBody
             ELSE Advance(s, newHead, AteFood(f, newHead))

moveSnake(s, dir, f) ==
    IF Len(s) = 0 THEN s
    ELSE LET newHead == NewHead(s[1], dir)
         IN  IF HitsWall(newHead, BOARD_ROWS, BOARD_COLS) THEN NoBody
             ELSE IF Some(s, newHead) THEN NoBody
             ELSE Advance(s, newHead, AteFood(f, newHead))

\* Why moveSnake returned null.
moveSnakeWhy(s, dir) ==
    IF HitsWall(NewHead(s[1], dir), BOARD_ROWS, BOARD_COLS) THEN "wall" ELSE "self"

\* First render's effects, in source order: game loop (setInterval), food
\* effect (placeFood over this render's empty snakes: every cell is "empty"),
\* keyboard, initBoard + initSnakes.
SnakeTwo_Mount ==
    /\ variant = "TWO" /\ ~mounted
    /\ mounted' = TRUE
    /\ timer' = TRUE
    /\ closure' = Render
    /\ \E cell \in EmptyCells(BOARD_ROWS, BOARD_COLS, snake, userSnake) : food' = cell
    /\ board' = initBoardOf(BOARD_ROWS, BOARD_COLS)
    /\ snake' = <<SpawnOne>>
    /\ userSnake' = <<SpawnTwo>>
    /\ changed' = {"food", "board", "snake", "userSnake"}
    /\ outcome' = NoOutcome
    /\ UNCHANGED <<variant, gameOver, direction, userDirection, nextDir>>

SnakeTwo_placeFood ==
    LET emptyCells == EmptyCells(BOARD_ROWS, BOARD_COLS, snake, userSnake)
    IN  IF emptyCells = {}
        THEN changed' = {} /\ UNCHANGED food
        ELSE \E cell \in emptyCells : food' = cell /\ changed' = {"food"}

\* Game loop effect on [snakeOne, snakeTwo, directionOne, directionTwo, food];
\* food effect on [food, snakeOne, snakeTwo].
SnakeTwo_Effects ==
    /\ variant = "TWO" /\ mounted /\ changed # {}
    /\ IF changed \cap {"snake", "userSnake", "direction", "userDirection", "food"} # {}
       THEN timer' = TRUE /\ closure' = Render
       ELSE UNCHANGED <<timer, closure>>
    /\ IF changed \cap {"food", "snake", "userSnake"} # {} /\ food = NULL
       THEN SnakeTwo_placeFood
       ELSE changed' = {} /\ UNCHANGED food
    /\ outcome' = NoOutcome
    /\ UNCHANGED <<variant, gameOver, mounted, board, snake, userSnake, direction,
                   userDirection, nextDir>>

\* The interval callback.
SnakeTwo_Tick ==
    /\ variant = "TWO" /\ mounted /\ changed = {} /\ timer
    /\ timer' = TRUE        \* setInterval: still pending after it fired
    /\ IF Len(closure.snake) = 0 \/ Len(closure.userSnake) = 0
       THEN \* moveSnake returns [] and newSnake[0].row throws
            /\ outcome' = <<"error", "error">>
            /\ UNCHANGED <<board, snake, userSnake, food, direction, userDirection, changed>>
       ELSE
        LET newSnakeOne == moveSnake(closure.snake, closure.direction, closure.food)
            newSnakeTwo == moveSnake(closure.userSnake, closure.userDirection, closure.food)
            crossOne == newSnakeOne # NoBody /\ Some(closure.userSnake, newSnakeOne[1])
            crossTwo == newSnakeTwo # NoBody /\ Some(closure.snake, newSnakeTwo[1])
            validSnakeOne == newSnakeOne # NoBody /\ ~crossOne
            validSnakeTwo == newSnakeTwo # NoBody /\ ~crossTwo
            headOne == IF validSnakeOne THEN newSnakeOne[1] ELSE NULL
            headTwo == IF validSnakeTwo THEN newSnakeTwo[1] ELSE NULL
            eaten == /\ closure.food # NULL
                     /\ \/ (headOne # NULL /\ headOne = closure.food)
                        \/ (headTwo # NULL /\ headTwo = closure.food)
        IN  /\ Len(newSnakeOne) <= MaxLenDuo /\ Len(newSnakeTwo) <= MaxLenDuo
            /\ snake' = IF validSnakeOne THEN newSnakeOne ELSE <<SpawnOne>>
            /\ direction' = IF validSnakeOne THEN direction ELSE RIGHT
            /\ userSnake' = IF validSnakeTwo THEN newSnakeTwo ELSE <<SpawnTwo>>
            /\ userDirection' = IF validSnakeTwo THEN userDirection ELSE LEFT
            /\ food' = IF eaten THEN NULL ELSE food
            \* updateBoard() reads this closure's snakeOne, snakeTwo and food.
            /\ board' = Paint(BOARD_ROWS, BOARD_COLS, closure.snake, PLAYER_ONE,
                              closure.userSnake, PLAYER_TWO, closure.food)
            /\ changed' = {"snake", "userSnake", "board"}
                            \cup (IF eaten THEN {"food"} ELSE {})
                            \cup (IF ~validSnakeOne /\ direction # RIGHT
                                  THEN {"direction"} ELSE {})
                            \cup (IF ~validSnakeTwo /\ userDirection # LEFT
                                  THEN {"userDirection"} ELSE {})
            /\ outcome' =
                 << IF newSnakeOne = NoBody THEN moveSnakeWhy(closure.snake, closure.direction)
                    ELSE IF crossOne THEN "other"
                    ELSE IF Len(newSnakeOne) > Len(closure.snake) THEN "grew" ELSE "moved",
                    IF newSnakeTwo = NoBody THEN moveSnakeWhy(closure.userSnake, closure.userDirection)
                    ELSE IF crossTwo THEN "other"
                    ELSE IF Len(newSnakeTwo) > Len(closure.userSnake) THEN "grew" ELSE "moved" >>
    /\ UNCHANGED <<variant, gameOver, mounted, closure, nextDir>>

\* handleKeyDown: W/A/S/D steer player one, the arrows player two (with the
\* effects of the key event's render, as in SnakeGame_handleKeyDown).
SnakeTwo_handleKeyDown ==
    /\ variant = "TWO" /\ mounted /\ changed = {}
    /\ \E key \in {"w", "s", "a", "d", "ArrowUp", "ArrowDown", "ArrowLeft", "ArrowRight"} :
          LET want == IF key \in {"w", "ArrowUp"} THEN UP
                      ELSE IF key \in {"s", "ArrowDown"} THEN DOWN
                      ELSE IF key \in {"a", "ArrowLeft"} THEN LEFT
                      ELSE RIGHT
          IN  IF key \in {"w", "s", "a", "d"}
              THEN /\ direction # want
                   /\ direction' = want
                   /\ closure' = [Render EXCEPT !.direction = want]
                   /\ UNCHANGED userDirection
              ELSE /\ userDirection # want
                   /\ userDirection' = want
                   /\ closure' = [Render EXCEPT !.userDirection = want]
                   /\ UNCHANGED direction
    \* the game loop effect runs again (clearInterval, setInterval)
    /\ timer' = TRUE
    /\ outcome' = NoOutcome
    /\ UNCHANGED <<variant, gameOver, mounted, board, snake, userSnake, food,
                   changed, nextDir>>

-----------------------------------------------------------------------------
(* SnakeWithAi (user against the AI) : src/unnamed/part_003, first component *)
(* snake is the AI snake, direction is aiDirection.                        *)

UserSpawn == Coord(BOARD_I_LENGTH - 1, BOARD_J_LENGTH - 1)

\* First render's effects, in source order: game loop, keyboard, initBoard +
\* initSnake, food effect (placeFood over this render's empty snakes).
SnakeWithAi_Mount ==
    /\ variant = "WITH_AI" /\ ~mounted
    /\ mounted' = TRUE
    /\ timer' = TRUE
    /\ closure' = Render
    /\ board' = initBoardOf(BOARD_I_LENGTH, BOARD_J_LENGTH)
    /\ snake' = <<AiSpawn>>
    /\ userSnake' = <<UserSpawn>>
    /\ \E cell \in EmptyCells(BOARD_I_LENGTH, BOARD_J_LENGTH, snake, userSnake) : food' = cell
    /\ changed' = {"board", "snake", "userSnake", "food"}
    /\ outcome' = NoOutcome
    /\ UNCHANGED <<variant, gameOver, direction, userDirection, nextDir>>

SnakeWithAi_placeFood ==
    LET emptyCells == EmptyCells(BOARD_I_LENGTH, BOARD_J_LENGTH, snake, userSnake)
    IN  IF emptyCells = {}
        THEN changed' = {} /\ UNCHANGED food
        ELSE \E cell \in emptyCells : food' = cell /\ changed' = {"food"}

\* Game loop effect on [snake, userSnake, food, aiDirection, userDirection];
\* food effect on [food, snake, userSnake].
SnakeWithAi_Effects ==
    /\ variant = "WITH_AI" /\ mounted /\ changed # {}
    /\ IF changed \cap {"snake", "userSnake", "food", "direction", "userDirection"} # {}
       THEN timer' = TRUE /\ closure' = Render
       ELSE UNCHANGED <<timer, closure>>
    /\ IF changed \cap {"food", "snake", "userSnake"} # {} /\ food = NULL
       THEN SnakeWithAi_placeFood
       ELSE changed' = {} /\ UNCHANGED food
    /\ outcome' = NoOutcome
    /\ UNCHANGED <<variant, gameOver, mounted, board, snake, userSnake, direction,
                   userDirection, nextDir>>

\* A move that tests the wall and the snake's own body only.
moveEither_ownOnly(mine, other, f, moveDir, spawn) ==
    IF Len(mine) = 0 THEN [body |-> mine, ate |-> FALSE, why |-> "empty"]
    ELSE LET newHead == NewHead(mine[1], moveDir)
             ateFood == AteFood(f, newHead)
         IN  IF HitsWall(newHead, BOARD_I_LENGTH, BOARD_J_LENGTH)
             THEN [body |-> <<spawn>>, ate |-> FALSE, why |-> "wall"]
             ELSE IF Some(mine, newHead)
             THEN [body |-> <<spawn>>, ate |-> FALSE, why |-> "self"]
             ELSE [body |-> Advance(mine, newHead, ateFood), ate |-> ateFood,
                   why |-> IF ateFood THEN "grew" ELSE "moved"]

\* A move that removes the food whenever the new head is the food cell.
moveEither_eatsFirst(mine, other, f, moveDir, spawn) ==
    IF Len(mine) = 0 THEN [body |-> mine, ate |-> FALSE, why |-> "empty"]
    ELSE LET newHead == NewHead(mine[1], moveDir)
             ateFood == AteFood(f, newHead)
         IN  IF HitsWall(newHead, BOARD_I_LENGTH, BOARD_J_LENGTH)
             THEN [body |-> <<spawn>>, ate |-> ateFood, why |-> "wall"]
             ELSE IF Some(mine, newHead)
             THEN [body |-> <<spawn>>, ate |-> ateFood, why |-> "self"]
             ELSE IF Some(other, newHead)
             THEN [body |-> <<spawn>>, ate |-> ateFood, why |-> "other"]
             ELSE [body |-> Advance(mine, newHead, ateFood), ate |-> ateFood,
                   why |-> IF ateFood THEN "grew" ELSE "moved"]

\* moveAiSnake / moveUserSnake: what the call does to its own snake, given the
\* closure's two bodies (mine, other) and food:
\* [body: the array passed to the setter, ate: setFood(null) was called, why].
moveEither(mine, other, f, moveDir, spawn) ==
    IF Len(mine) = 0 THEN [body |-> mine, ate |-> FALSE, why |-> "empty"]
    ELSE LET newHead == NewHead(mine[1], moveDir)
             ateFood == AteFood(f, newHead)
         IN  IF HitsWall(newHead, BOARD_I_LENGTH, BOARD_J_LENGTH)
             THEN [body |-> <<spawn>>, ate |-> FALSE, why |-> "wall"]
             ELSE IF Some(mine, newHead)
             THEN [body |-> <<spawn>>, ate |-> FALSE, why |-> "self"]
             ELSE IF Some(other, newHead)
             THEN [body |-> <<spawn>>, ate |-> FALSE, why |-> "other"]
             ELSE [body |-> Advance(mine, newHead, ateFood), ate |-> ateFood,
                   why |-> IF ateFood THEN "grew" ELSE "moved"]

\* The timer callback after its planner call returned nextAIDir:
\* setAiDirection, moveAiSnake, moveUserSnake, updateBoard.
SnakeWithAi_TickWith(nextAIDir) ==
    /\ variant = "WITH_AI" /\ mounted /\ changed = {} /\ timer
    /\ timer' = FALSE
    /\ LET aiMoveDir == moveDirOf(nextAIDir, closure.direction)
           ai == moveEither(closure.snake, closure.userSnake, closure.food,
                            aiMoveDir, AiSpawn)
           user == moveEither(closure.userSnake, closure.snake, closure.food,
                              closure.userDirection, UserSpawn)
       IN  /\ nextDir' = nextAIDir
           /\ IF nextAIDir = TypeError
              THEN /\ outcome' = <<"error", "none">>
                   /\ UNCHANGED <<board, snake, userSnake, food, direction, changed>>
              ELSE
               /\ Len(ai.body) <= MaxLenDuo /\ Len(user.body) <= MaxLenDuo
               /\ direction' = aiMoveDir
               /\ snake' = ai.body
               /\ userSnake' = user.body
               /\ food' = IF ai.ate \/ user.ate THEN NULL ELSE food
               \* updateBoard() reads this closure's snake, userSnake and food.
               /\ board' = Paint(BOARD_I_LENGTH, BOARD_J_LENGTH, closure.snake, AI_SNAKE,
                                 closure.userSnake, USER_SNAKE, closure.food)
               /\ changed' = {"board"}
                               \cup (IF ai.why # "empty" THEN {"snake"} ELSE {})
                               \cup (IF user.why # "empty" THEN {"userSnake"} ELSE {})
                               \cup (IF ai.ate \/ user.ate THEN {"food"} ELSE {})
                               \cup (IF aiMoveDir # direction THEN {"direction"} ELSE {})
               /\ outcome' = <<ai.why, user.why>>
    /\ UNCHANGED <<variant, gameOver, mounted, userDirection, closure>>

\* The timer callback: plan, setAiDirection, moveAiSnake, moveUserSnake, updateBoard.
SnakeWithAi_Tick ==
    SnakeWithAi_TickWith(findShortestWayToFood(
                            getPathfindingBoard(closure.snake, closure.userSnake, closure.food),
                            closure.snake, closure.food))

\* handleKeyDown: the arrows steer the user snake (with the effects of the key
\* event's render, as in SnakeGame_handleKeyDown).
SnakeWithAi_handleKeyDown ==
    /\ variant = "WITH_AI" /\ mounted /\ changed = {}
    /\ \E key \in {"ArrowUp", "ArrowDown", "ArrowLeft", "ArrowRight"} :
          LET want == IF key = "ArrowUp" THEN UP
                      ELSE IF key = "ArrowDown" THEN DOWN
                      ELSE IF key = "ArrowLeft" THEN LEFT
                      ELSE RIGHT
          IN  /\ userDirection # want
              /\ userDirection' = want
              /\ closure' = [Render EXCEPT !.userDirection = want]
    \* the game loop effect runs again (clearTimeout, setTimeout)
    /\ timer' = TRUE
    /\ outcome' = NoOutcome
    /\ UNCHANGED <<variant, gameOver, mounted, board, snake, userSnake, food, direction,
                   changed, nextDir>>

-----------------------------------------------------------------------------
(* The planner on its own: every bounded input, then one call *)

PlanCells == {Coord(r, c) : r \in 0..(PLAN_ROWS - 1), c \in 0..(PLAN_COLS - 1)}

\* A board whose cells in `blocked` are tagged SNAKE and whose cells in
\* `foods` are tagged FOOD (the food tag is painted last, as in getPathfindingBoard).
TaggedBoard(blocked, foods) ==
    [r \in 0..(PLAN_ROWS - 1) |->
        [c \in 0..(PLAN_COLS - 1) |->
            IF Coord(r, c) \in foods THEN FOOD
            ELSE IF Coord(r, c) \in blocked THEN SNAKE
            ELSE EMPTY]]

InitPlan ==
    /\ variant = "PLAN"
    /\ mounted = FALSE
    /\ food \in PlanCells
    /\ \E blocked \in SUBSET PlanCells, foods \in {{}, {food}} :
          /\ Cardinality(blocked) <= MaxBlocked
          /\ board = TaggedBoard(blocked, foods)
    /\ \E origin \in PlanCells : snake = <<origin>>
    /\ userSnake = << >>
    /\ direction = RIGHT
    /\ userDirection = RIGHT
    /\ changed = {}
    /\ timer = FALSE
    /\ closure = Render
    /\ nextDir = "none"
    /\ outcome = NoOutcome
    /\ gameOver = FALSE

CallPlanner ==
    /\ variant = "PLAN"
    /\ nextDir = "none"
    /\ nextDir' = findShortestWayToFood(board, snake, food)
    /\ UNCHANGED <<variant, gameOver, mounted, board, snake, userSnake, food, direction,
                   userDirection, changed, timer, closure, outcome>>

NextPlan == CallPlanner

SpecPlan == InitPlan /\ [][NextPlan]_vars

-----------------------------------------------------------------------------
(* The four games *)

Init ==
    /\ variant \in {"SOLO", "AI", "TWO", "WITH_AI"}
    /\ mounted = FALSE
    /\ board = << >>
    /\ snake = << >>
    /\ userSnake = << >>
    /\ food = NULL
    /\ direction = RIGHT
    /\ userDirection = (IF variant = "TWO" THEN LEFT ELSE RIGHT)
    /\ changed = {}
    /\ timer = FALSE
    /\ closure = Render
    /\ nextDir = "none"
    /\ outcome = NoOutcome
    /\ gameOver = FALSE

Next ==
    \/ SnakeGame_Mount
    \/ SnakeGame_Effects
    \/ SnakeGame_move
    \/ SnakeGame_handleKeyDown
    \/ AiSnake_Mount
    \/ AiSnake_Effects
    \/ AiSnake_Tick
    \/ SnakeTwo_Mount
    \/ SnakeTwo_Effects
    \/ SnakeTwo_Tick
    \/ SnakeTwo_handleKeyDown
    \/ SnakeWithAi_Mount
    \/ SnakeWithAi_Effects
    \/ SnakeWithAi_Tick
    \/ SnakeWithAi_handleKeyDown

Spec == Init /\ [][Next]_vars

-----------------------------------------------------------------------------
(* Reference breadth-first search, for the planner's claims *)

RefCells(b) == {Coord(r, c) : r \in DOMAIN b, c \in 0..(boardCols(b) - 1)}

RefPassable(b, c) ==
    c \in RefCells(b) /\ (b[c.row][c.col] = EMPTY \/ b[c.row][c.col] = FOOD)

RefAdjacent(x, y) == Abs(x.row - y.row) + Abs(x.col - y.col) = 1

\* Cells from which the target is exactly k steps away, each step entering a
\* passable cell; searched backwards from the target.
RECURSIVE RefSearch(_, _, _, _, _)
RefSearch(b, x, frontier, seen, k) ==
    IF x \in frontier THEN k
    ELSE IF frontier = {} THEN -1
    ELSE LET next == {c \in RefCells(b) \ seen :
                        \E y \in frontier : RefAdjacent(c, y) /\ RefPassable(b, y)}
         IN  RefSearch(b, x, next, seen \cup next, k + 1)

\* Length of a shortest 4-connected path of passable cells from x to t
\* (x itself need not be passable), -1 if there is none.
RefDist(b, x, t) == RefSearch(b, x, {t}, {t}, 0)

RefStep(c, d) ==
    IF d = UP THEN Coord(c.row - 1, c.col)
    ELSE IF d = DOWN THEN Coord(c.row + 1, c.col)
    ELSE IF d = LEFT THEN Coord(c.row, c.col - 1)
    ELSE Coord(c.row, c.col + 1)

PlanReturned == variant = "PLAN" /\ nextDir # "none"

-----------------------------------------------------------------------------
(* Claims *)

\* C1: whenever findShortestWayToFood returns a direction d, the cell reached
\* from the origin by d is passable and its reference-BFS distance to the
\* target is the origin's distance minus 1 (it lies on a shortest passable path).
C1_FirstStepOnShortestPath ==
    (PlanReturned /\ nextDir \in Direction) =>
        LET origin == snake[1]
            step == RefStep(origin, nextDir)
        IN  /\ RefPassable(board, step)
            /\ RefDist(board, origin, food) >= 1
            /\ RefDist(board, step, food) = RefDist(board, origin, food) - 1

\* A direction was returned where blocked cells force a detour: the shortest
\* passable path is longer than the Manhattan distance.
C1_Witness ==
    /\ PlanReturned /\ nextDir \in Direction
    /\ RefDist(board, snake[1], food) > heuristic(food, snake[1].row, snake[1].col)

\* C2: for a non-empty snake the result is null exactly when the origin is
\* the target or no passable path leads from the origin to the target;
\* otherwise it is one of UP, DOWN, LEFT, RIGHT.
C2_NullIffNoPathOrAtTarget ==
    PlanReturned =>
        /\ nextDir \in Direction \cup {NullDir}
        /\ (nextDir = NullDir) <=>
              (snake[1] = food \/ RefDist(board, snake[1], food) = -1)

\* null was returned for an origin, away from the target, whose four
\* neighbours are all blocked or off the board.
C2_Witness ==
    /\ PlanReturned /\ nextDir = NullDir
    /\ snake[1] # food
    /\ \A d \in Direction : ~RefPassable(board, RefStep(snake[1], d))
    /\ \E d \in Direction : RefStep(snake[1], d) \in RefCells(board)
    /\ RefPassable(board, food)

-----------------------------------------------------------------------------
(* Claims about the games *)

Distinct(s) == \A i, j \in 1..Len(s) : i # j => s[i] # s[j]

Chained(s) == \A i \in 1..(Len(s) - 1) : RefAdjacent(s[i], s[i + 1])

WellFormed(s) == Len(s) >= 1 /\ Distinct(s) /\ Chained(s)

TwoAgents == variant \in {"TWO", "WITH_AI"}

\* The agents of the running game: 1 is snake, 2 is userSnake.
Agents == IF TwoAgents THEN {1, 2} ELSE {1}

Rows == IF variant = "TWO" THEN BOARD_ROWS ELSE BOARD_I_LENGTH

Cols == IF variant = "TWO" THEN BOARD_COLS ELSE BOARD_J_LENGTH

\* C3: in every variant, once the snakes have been initialised, every snake
\* has length >= 1, pairwise distinct cells, and consecutive cells that are
\* 4-adjacent, whatever ticks, key presses, food placements and resets came
\* before.
C3_BodiesWellFormed ==
    mounted => /\ WellFormed(snake)
               /\ (TwoAgents => WellFormed(userSnake))

\* A snake of length 3 with a bend, just after a tick that moved it.
C3_Witness ==
    /\ mounted /\ outcome[1] = "moved"
    /\ Len(snake) >= 3
    /\ snake[1].row # snake[3].row /\ snake[1].col # snake[3].col


-----------------------------------------------------------------------------
(* Ticks, seen from outside: the committed state before and after *)

\* A step is a tick exactly when it leaves a tick's outcome behind.
TickStep == outcome' # NoOutcome

\* The tick's callback ran to its end: the planner call did not throw, so the
\* move functions were called.
Completed == outcome'[1] # "error"

Body(i) == IF i = 1 THEN snake ELSE userSnake

BodyAfter(i) == IF i = 1 THEN snake' ELSE userSnake'

Other(i) == IF i = 1 THEN userSnake ELSE snake

Planned(i) == i = 1 /\ variant \in {"AI", "WITH_AI"}

\* The heading an agent moves with on this tick: the one the tick's planner
\* call leaves in direction for a planned agent, the steered one otherwise.
HeadingOf(i) ==
    IF Planned(i) THEN direction'
    ELSE IF i = 1 THEN direction ELSE userDirection

NewHeadOf(i) == NewHead(Body(i)[1], HeadingOf(i))

OffBoard(c) == c.row < 0 \/ c.row >= Rows \/ c.col < 0 \/ c.col >= Cols

OnBody(s, c) == \E k \in 1..Len(s) : s[k] = c

\* The new head is in bounds and on no pre-tick body.
Clear(i) ==
    /\ ~OffBoard(NewHeadOf(i))
    /\ ~OnBody(Body(i), NewHeadOf(i))
    /\ (TwoAgents => ~OnBody(Other(i), NewHeadOf(i)))

Front(s) == SubSeq(s, 1, Len(s) - 1)

\* C4: on a tick where an agent's new head is in bounds and collides with
\* nothing, its next body is the new head followed by the whole old body when
\* the new head is the food coordinate (and food becomes absent), and the new
\* head followed by the old body without its last cell otherwise, in every
\* variant.
C4_AdvanceOrGrow ==
    [][(TickStep /\ Completed) =>
        \A i \in Agents :
            Clear(i) =>
                IF NewHeadOf(i) = food
                THEN BodyAfter(i) = <<NewHeadOf(i)>> \o Body(i) /\ food' = NULL
                ELSE BodyAfter(i) = <<NewHeadOf(i)>> \o Front(Body(i))]_vars

\* The same statement over the food the tick's callback holds in its closure.
C4_OverClosureFood ==
    [][(TickStep /\ Completed) =>
        \A i \in Agents :
            Clear(i) =>
                IF NewHeadOf(i) = closure.food
                THEN BodyAfter(i) = <<NewHeadOf(i)>> \o Body(i) /\ food' = NULL
                ELSE BodyAfter(i) = <<NewHeadOf(i)>> \o Front(Body(i))]_vars


\* C5: while an agent is not reset its length never decreases from one tick
\* to the next, and it increases, by exactly 1, on a tick if and only if that
\* tick's new head is the food coordinate and the agent survives the tick.
C5_LengthGrowsIffEats ==
    [][TickStep =>
        \A i \in Agents :
            /\ Clear(i) => Len(BodyAfter(i)) >= Len(Body(i))
            /\ Len(BodyAfter(i)) <= Len(Body(i)) + 1
            /\ Len(BodyAfter(i)) = Len(Body(i)) + 1
                  <=> (Clear(i) /\ NewHeadOf(i) = food)]_vars

\* The same statement over the food the tick's callback holds in its closure.
C5_OverClosureFood ==
    [][TickStep =>
        \A i \in Agents :
            /\ Clear(i) => Len(BodyAfter(i)) >= Len(Body(i))
            /\ Len(BodyAfter(i)) <= Len(Body(i)) + 1
            /\ Len(BodyAfter(i)) = Len(Body(i)) + 1
                  <=> (Clear(i) /\ NewHeadOf(i) = closure.food)]_vars

InBounds(s) == \A k \in 1..Len(s) : ~OffBoard(s[k])

\* C6: in every variant a tick whose new head is off the board takes the wall
\* branch whatever the food, the agent's length and the other agent's body
\* are: the agent does not take the off-board cell and does not grow on that
\* tick, and no body cell is outside the board in any reachable state.
C6_WallAlwaysCollides ==
    /\ [](InBounds(snake) /\ InBounds(userSnake))
    /\ [][TickStep =>
            \A i \in Agents :
                OffBoard(NewHeadOf(i)) =>
                    /\ Completed => outcome'[i] = "wall"
                    /\ ~OnBody(BodyAfter(i), NewHeadOf(i))
                    /\ Len(BodyAfter(i)) <= Len(Body(i))]_vars

\* A snake of length 2 or more has just run into the wall.
C6_Witness ==
    /\ mounted /\ outcome[1] = "wall"
    /\ Len(closure.snake) >= 2
    /\ OffBoard(NewHead(closure.snake[1], direction))

SpawnOf(i) ==
    IF variant = "TWO" THEN (IF i = 1 THEN SpawnOne ELSE SpawnTwo)
    ELSE IF variant = "WITH_AI" THEN (IF i = 1 THEN AiSpawn ELSE UserSpawn)
    ELSE IF variant = "AI" THEN AiSpawn
    ELSE SoloSpawn

\* What a death leaves behind: the solo game stops where it is, the other
\* games put the agent back on its spawn cell.
DeadAfter(i) ==
    IF variant = "SOLO" THEN BodyAfter(i) = Body(i)
    ELSE BodyAfter(i) = <<SpawnOf(i)>>

\* C7: in every variant a tick whose in-bounds new head is a cell of the
\* agent's own pre-tick body, the tail the tick would vacate included, is a
\* self collision: the agent does not move and dies.  So a snake of length 2
\* or more whose heading is reversed dies on that tick.
C7_OwnBodyAlwaysCollides ==
    [][TickStep =>
        \A i \in Agents :
            (~OffBoard(NewHeadOf(i)) /\ OnBody(Body(i), NewHeadOf(i))) =>
                /\ BodyAfter(i) \in {Body(i), <<SpawnOf(i)>>}
                /\ Completed => (outcome'[i] = "self" /\ DeadAfter(i))]_vars

\* A snake of length 4 or more has just run into its own tail cell.
C7_Witness ==
    /\ mounted /\ outcome[1] = "self"
    /\ Len(closure.snake) >= 4
    /\ NewHead(closure.snake[1], direction) = closure.snake[Len(closure.snake)]

\* The step makes a new food visible.
FoodPlaced == food' # NULL /\ food' # food

\* C9: in every variant, each time food is placed, the first placement at
\* mount included, the chosen coordinate is on the board and is no cell of an
\* agent's body in the state in which the new food becomes visible.
C9_FoodOffBodies ==
    [][FoodPlaced =>
        /\ ~OffBoard(food')
        /\ ~OnBody(snake', food')
        /\ ~OnBody(userSnake', food')]_vars

\* The same statement for the placements after the mount step.
C9_AfterMount ==
    [][(FoodPlaced /\ mounted) =>
        /\ ~OffBoard(food')
        /\ ~OnBody(snake', food')
        /\ ~OnBody(userSnake', food')]_vars

\* No cell of the board is free of agent bodies.
BoardFull == mounted /\ EmptyCells(Rows, Cols, snake, userSnake) = {}

\* C10: in every variant, when no cell is free of agent bodies the game keeps
\* ticking without any error: no tick of the AI-only or the user-vs-AI game
\* hands an absent food to the planner and dereferences it.
C10_NoTickThrows ==
    /\ nextDir # TypeError
    /\ outcome[1] # "error" /\ outcome[2] # "error"

\* C8: in the two-player and the user-vs-AI game an agent whose new head is a
\* cell of the other agent's pre-tick body is reset on that tick, also when
\* the other agent dies on the same tick and when the cell is the tail the
\* other agent would vacate; when each new head lies in the other's pre-tick
\* body, both are reset.
C8_OtherBodyAlwaysCollides ==
    [][(TickStep /\ Completed /\ TwoAgents) =>
        \A i \in Agents :
            OnBody(Other(i), NewHeadOf(i)) =>
                /\ BodyAfter(i) = <<SpawnOf(i)>>
                /\ outcome'[i] # "moved" /\ outcome'[i] # "grew"]_vars

\* The second agent has just run into the tail cell of the first, of length 2
\* or more, on a tick on which the first died too.
C8_Witness ==
    /\ mounted /\ TwoAgents
    /\ outcome[2] = "other"
    /\ outcome[1] \in {"wall", "self", "other"}
    /\ Len(closure.snake) >= 2
    /\ NewHead(closure.userSnake[1], closure.userDirection)
          = closure.snake[Len(closure.snake)]

-----------------------------------------------------------------------------
(* Food placement and the tick's view of the food *)

\* Some cell of the board is free of agent bodies.
FreeCell == EmptyCells(Rows, Cols, snake, userSnake) # {}

\* C11: in every variant, whenever food becomes absent and a cell is free of
\* agent bodies, a new food is placed before the next tick is processed: no
\* tick after initialisation runs with food absent while a free cell exists.
C11_NoTickWithoutFood ==
    [][TickStep => (closure.food = NULL => ~FreeCell)]_vars

\* The same statement over the committed food instead of the food the tick's
\* callback holds in its closure.
C11_OverCommittedFood ==
    [][TickStep => (food = NULL => ~FreeCell)]_vars

-----------------------------------------------------------------------------
(* Death: halting and respawning *)

\* C12: in the single-player game, after a tick that ended in a wall or self
\* collision no later tick and no later key press changes the snake's body.
C12_SoloHaltsOnDeath ==
    [][(variant = "SOLO" /\ gameOver) => snake' = snake]_vars

\* What the solo game does on death: the tick changes nothing and leaves no
\* timer pending.
C12_NoTimerAfterDeath ==
    [][(TickStep /\ variant = "SOLO" /\ outcome'[1] \in {"wall", "self"}) =>
            (snake' = snake /\ ~timer' /\ changed' = {})]_vars

\* The agent dies on this tick: its new head is off the board, on its own
\* pre-tick body or (two-agent games) on the other agent's pre-tick body.
Dies(i) == ~Clear(i)

DirectionAfter(i) == IF i = 1 THEN direction' ELSE userDirection'

\* C13: in the two-player game, on every tick in which an agent dies (wall,
\* self or cross-agent collision) its state right after the tick is the body
\* [spawn cell] (row floor(R/2), col 2 for player one, col C-3 for player
\* two), length 1, heading RIGHT for player one and LEFT for player two; the
\* move computed for the tick is not applied on top of the reset.
C13_TwoPlayerRespawn ==
    [][(TickStep /\ variant = "TWO") =>
        /\ Dies(1) => /\ snake' = <<Coord(BOARD_ROWS \div 2, 2)>>
                      /\ direction' = RIGHT
        /\ Dies(2) => /\ userSnake' = <<Coord(BOARD_ROWS \div 2, BOARD_COLS - 3)>>
                      /\ userDirection' = LEFT]_vars

\* Player one, of length 2 or more and not heading RIGHT, has just died and
\* is back on its spawn cell heading RIGHT.
C13_Witness ==
    /\ variant = "TWO" /\ mounted
    /\ outcome[1] \in {"wall", "self", "other"}
    /\ Len(closure.snake) >= 2 /\ closure.direction # RIGHT
    /\ snake = <<SpawnOne>> /\ direction = RIGHT

\* C14: in the user-vs-AI game, on every tick in which an agent dies it is
\* respawned on its fixed spawn cell (board centre for the AI, bottom-right
\* corner for the user) with length 1 and with its heading set back to the
\* default heading (RIGHT, the initial one).
C14_WithAiRespawn ==
    [][(TickStep /\ Completed /\ variant = "WITH_AI") =>
        /\ Dies(1) =>
              /\ snake' = <<Coord(BOARD_I_LENGTH \div 2, BOARD_J_LENGTH \div 2)>>
              /\ direction' = RIGHT
        /\ Dies(2) =>
              /\ userSnake' = <<Coord(BOARD_I_LENGTH - 1, BOARD_J_LENGTH - 1)>>
              /\ userDirection' = RIGHT]_vars

\* The part about the body alone.
C14_RespawnCell ==
    [][(TickStep /\ Completed /\ variant = "WITH_AI") =>
        /\ Dies(1) =>
              snake' = <<Coord(BOARD_I_LENGTH \div 2, BOARD_J_LENGTH \div 2)>>
        /\ Dies(2) =>
              userSnake' = <<Coord(BOARD_I_LENGTH - 1, BOARD_J_LENGTH - 1)>>]_vars

\* A respawned user snake dies again on the next tick with the heading it
\* died with.
C14_DiesAgain ==
    /\ variant = "WITH_AI" /\ mounted
    /\ outcome[2] = "wall"
    /\ closure.userSnake = <<UserSpawn>>
    /\ userDirection # RIGHT

\* C15: in the AI-only game every death, by wall or by self collision,
\* respawns the snake on the board centre with length 1, and the tick loop
\* keeps running: once the effects of a commit have run, a tick is scheduled.
C15_AiRespawnsAndKeepsTicking ==
    /\ []((variant = "AI" /\ mounted /\ changed = {}) => timer)
    /\ [][(TickStep /\ Completed /\ variant = "AI") =>
            (Dies(1) =>
                snake' = <<Coord(BOARD_I_LENGTH \div 2, BOARD_J_LENGTH \div 2)>>)]_vars

\* The part that holds: a self collision respawns the snake and a tick is
\* scheduled after it.
C15_SelfCollisionRespawns ==
    [][(TickStep /\ variant = "AI" /\ outcome'[1] = "self") =>
            /\ snake' = <<Coord(BOARD_I_LENGTH \div 2, BOARD_J_LENGTH \div 2)>>
            /\ "snake" \in changed']_vars

-----------------------------------------------------------------------------
(* The heading of the AI agent *)

AiGame == variant \in {"AI", "WITH_AI"}

\* What the planner returns for the committed bodies and food.
PlannerNow ==
    findShortestWayToFood(
        Paint(Rows, Cols, snake, SNAKE, userSnake, SNAKE, food), snake, food)

\* The planner's result when it is not null, the heading left by the previous
\* tick otherwise.
PlannedOrKept == IF PlannerNow # NullDir THEN PlannerNow ELSE direction

\* The cell is on the board and on no pre-tick body.
FreeToEnter(c) ==
    /\ ~OffBoard(c)
    /\ ~OnBody(snake, c) /\ ~OnBody(userSnake, c)

\* C16: in the AI-only and the user-vs-AI game, on every tick with a non-empty
\* AI snake and food present the heading applied to the AI agent is the
\* planner's result when it is not null and otherwise the heading applied on
\* the previous tick (RIGHT before any tick), and the agent is moved with
\* that heading on the same tick.  The heading of the previous tick is what
\* direction holds: it is RIGHT before the mount and only ticks change it.
C16_PlannedOrKeptHeading ==
    /\ [](~mounted => direction = RIGHT)
    /\ [][AiGame =>
            IF TickStep /\ Len(snake) > 0 /\ food # NULL
            THEN /\ direction' = PlannedOrKept
                 /\ FreeToEnter(RefStep(snake[1], PlannedOrKept)) =>
                        /\ snake'[1] = RefStep(snake[1], PlannedOrKept)
                        /\ Tail(snake') = snake \/ Tail(snake') = Front(snake)
            ELSE TickStep \/ direction' = direction]_vars

\* The planner has just returned null and the AI snake, heading otherwise
\* than RIGHT, has moved on with the heading it had.
C16_Witness ==
    /\ AiGame /\ mounted
    /\ nextDir = NullDir /\ outcome[1] = "moved"
    /\ direction # RIGHT
    /\ snake[1] = RefStep(closure.snake[1], direction)

-----------------------------------------------------------------------------
(* The stored board *)

KindOf(i) ==
    IF variant = "TWO" THEN (IF i = 1 THEN PLAYER_ONE ELSE PLAYER_TWO)
    ELSE IF variant = "WITH_AI" THEN (IF i = 1 THEN AI_SNAKE ELSE USER_SNAKE)
    ELSE SNAKE

\* The board derived from bodies s1, s2 and food f: EMPTY everywhere, then
\* each agent's cells with its kind, then the food cell.
Projection(s1, s2, f) ==
    [r \in 0..(Rows - 1) |->
        [c \in 0..(Cols - 1) |->
            IF f = Coord(r, c) THEN FOOD
            ELSE IF OnBody(s2, Coord(r, c)) THEN KindOf(2)
            ELSE IF OnBody(s1, Coord(r, c)) THEN KindOf(1)
            ELSE EMPTY]]

\* C17: in every variant, after each tick the stored board is the projection
\* of the post-tick bodies and food, and a food placement does not leave the
\* board without the snake cells.
C17_BoardIsProjection ==
    [][((TickStep /\ Completed) \/ (FoodPlaced /\ mounted)) =>
            board' = Projection(snake', userSnake', food')]_vars

\* In the two-agent games the board stored by a tick is the projection of the
\* state before the tick.
C17_BoardOfPreviousState ==
    [][(TickStep /\ Completed /\ TwoAgents) =>
            board' = Projection(snake, userSnake, food)]_vars

-----------------------------------------------------------------------------
(* Food consumption *)

\* The agent survives the tick and its new head is the food cell.
Eats(i) == ~Dies(i) /\ food # NULL /\ NewHeadOf(i) = food

\* C18: in every variant a tick leaves the food coordinate unchanged unless a
\* surviving agent's new head equals it: food becomes absent on a tick only if
\* an agent that is not killed on the tick moves its head onto the food cell;
\* an agent that dies on the tick, its new head on the food cell or not,
\* never removes the food.
C18_FoodKeptUnlessEaten ==
    [][TickStep =>
          \/ food' = food
          \/ food' = NULL /\ \E i \in Agents : Eats(i)]_vars

\* A tick of the user-vs-AI game in which the AI agent ran into the user's
\* body on the very cell of the food, and the food is still there.
C18_Witness ==
    /\ variant = "WITH_AI" /\ outcome[1] = "other"
    /\ closure.food = food /\ food # NULL
    /\ NewHead(closure.snake[1], direction) = food

-----------------------------------------------------------------------------
(* Determinism *)

\* The tick of the running game, given what its planner call returned.
TickAny(plan) ==
    \/ SnakeGame_move
    \/ AiSnake_TickWith(plan)
    \/ SnakeTwo_Tick
    \/ SnakeWithAi_TickWith(plan)

KeyAny == SnakeGame_handleKeyDown \/ SnakeTwo_handleKeyDown \/ SnakeWithAi_handleKeyDown

PlaceAny ==
    \/ SnakeGame_Mount \/ SnakeGame_Effects
    \/ AiSnake_Mount \/ AiSnake_Effects
    \/ SnakeTwo_Mount \/ SnakeTwo_Effects
    \/ SnakeWithAi_Mount \/ SnakeWithAi_Effects

KeyStep == mounted /\ changed = {} /\ ~TickStep

PlaceStep == ~mounted \/ changed # {}

-----------------------------------------------------------------------------
(* Timers and closures *)

\* C20: in every variant, under any interleaving of key events, state
\* updates, effect re-runs and timer expiries, a tick callback that fires
\* operates on the most recently committed snake, food and heading state,
\* never on a superseded closure (the model holds one timer slot per game, set
\* by the effect that cleared the previous timer).
C20_TickOnCommittedState ==
    [][TickStep => closure = Render]_vars

\* A firing tick callback holds the committed bodies and headings in every
\* variant, and the committed food in every variant but the solo game.
C20_BodiesAndHeadingsCommitted ==
    [][TickStep =>
          /\ closure.snake = snake /\ closure.userSnake = userSnake
          /\ closure.direction = direction
          /\ closure.userDirection = userDirection
          /\ variant # "SOLO" => closure.food = food]_vars

-----------------------------------------------------------------------------
(* Tie-break of the planner *)

ObstacleFree(b) == \A c \in RefCells(b) : RefPassable(b, c)

\* The direction of the target seen from the origin, the vertical one first.
VerticalFirst(origin, target) ==
    IF target.row < origin.row THEN UP
    ELSE IF target.row > origin.row THEN DOWN
    ELSE IF target.col < origin.col THEN LEFT
    ELSE RIGHT

\* C21: on an obstacle-free board findShortestWayToFood resolves ties between
\* equally short paths by the UP, DOWN, LEFT, RIGHT expansion order: for a
\* target away from the origin it returns the vertical direction toward the
\* target whenever the rows differ (UP if the target row is smaller, DOWN if
\* larger), and LEFT or RIGHT only when the target is in the origin's row.
C21_VerticalFirstTieBreak ==
    (PlanReturned /\ ObstacleFree(board) /\ snake[1] # food) =>
        nextDir = VerticalFirst(snake[1], food)

\* A vertical direction was returned for a target two rows and three columns
\* away on a board without obstacles.
C21_Witness ==
    /\ PlanReturned /\ ObstacleFree(board)
    /\ Abs(food.row - snake[1].row) = 2 /\ Abs(food.col - snake[1].col) = 3
    /\ nextDir \in {UP, DOWN}

-----------------------------------------------------------------------------
(* Empty bodies: the step and planner functions called with an empty array *)

GameCells == {Coord(r, c) : r \in 0..(Rows - 1), c \in 0..(Cols - 1)}

\* A pending tick whose closure holds an empty first body (and, in the
\* two-agent games, an empty or one-cell second body), or a planner call
\* about to be made with an empty snake.
InitEmpty ==
    /\ variant \in {"SOLO", "AI", "TWO", "WITH_AI", "PLAN"}
    /\ mounted = (variant # "PLAN")
    /\ snake = << >>
    /\ userSnake \in IF TwoAgents THEN {<< >>} \cup {<<c>> : c \in GameCells}
                     ELSE {<< >>}
    /\ food \in IF variant = "PLAN" THEN PlanCells ELSE GameCells \cup {NULL}
    /\ board = IF variant = "PLAN" THEN TaggedBoard({}, {food})
               ELSE initBoardOf(Rows, Cols)
    /\ direction \in Direction
    /\ userDirection \in IF TwoAgents THEN Direction ELSE {RIGHT}
    /\ changed = {}
    /\ timer = (variant # "PLAN")
    /\ closure = Render
    /\ nextDir = "none"
    /\ outcome = NoOutcome
    /\ gameOver = FALSE

NextEmpty ==
    \/ SnakeGame_move
    \/ AiSnake_Tick
    \/ SnakeTwo_Tick
    \/ SnakeWithAi_Tick
    \/ CallPlanner

SpecEmpty == InitEmpty /\ [][NextEmpty]_vars

\* C22: a step or a planner call given an empty agent body is rejected with an
\* error and is never a silent no-op: no tick over an empty body and no
\* planner call with an empty snake returns normally, with the state unchanged
\* or with null.
C22_EmptyBodyRejected ==
    /\ [][(TickStep /\ Len(closure.snake) = 0) => outcome'[1] = "error"]_vars
    /\ [][(CallPlanner /\ Len(snake) = 0) => nextDir' = TypeError]_vars

\* What the code does instead: the tick over an empty first body leaves that
\* body as it was (the two-player tick throws after moveSnake returned the
\* empty array), and the planner returns null.
C22_EmptyBodyIsNoOp ==
    /\ [][(TickStep /\ Len(closure.snake) = 0) =>
              /\ snake' = snake
              /\ outcome'[1] = (IF variant = "TWO" THEN "error" ELSE "empty")]_vars
    /\ [][(CallPlanner /\ Len(snake) = 0) => nextDir' = NullDir]_vars

-----------------------------------------------------------------------------
(* The two bodies *)

Disjoint(s1, s2) == \A i \in 1..Len(s1), j \in 1..Len(s2) : s1[i] # s2[j]

\* C23: in the two-player and the user-vs-AI game, in every reachable state
\* after initialisation the bodies of the two agents share no cell: neither a
\* move of both heads onto the same cell nor a respawn at a spawn cell leaves
\* a cell that belongs to both agents.
C23_BodiesDisjoint ==
    (TwoAgents /\ mounted) => Disjoint(snake, userSnake)

\* The two ways the bodies come to overlap: both heads enter the same cell on
\* one tick, or an agent respawns on a cell of the other.
C23_HeadsMeet ==
    [][(TickStep /\ TwoAgents /\ Completed /\ Clear(1) /\ Clear(2)
          /\ NewHeadOf(1) = NewHeadOf(2)) =>
              snake'[1] = userSnake'[1]]_vars

-----------------------------------------------------------------------------
(* Planned moves *)

\* C24: in the AI-only and the user-vs-AI game the AI agent never dies on a
\* tick on which the planner returned a direction: a wall, self or cross-agent
\* collision of the AI agent happens only on ticks where findShortestWayToFood
\* returned null and the fallback heading was used.
C24_PlannedMoveNeverKills ==
    [][(TickStep /\ AiGame /\ nextDir' \in Direction) =>
            outcome'[1] \notin {"wall", "self", "other"}]_vars

\* The same for the ticks on which the food cell is on no body: the planned
\* move kills only when it enters a food cell that lies under a body.
C24_UnlessFoodUnderBody ==
    [][(TickStep /\ AiGame /\ nextDir' \in Direction
          /\ ~OnBody(snake, food) /\ ~OnBody(userSnake, food)) =>
            outcome'[1] \notin {"wall", "self", "other"}]_vars

-----------------------------------------------------------------------------
(* The planner's first step and the origin cell *)

\* The board with the tag of cell c replaced by t.
Retagged(b, c, t) == [b EXCEPT ![c.row][c.col] = t]

\* C25: whenever findShortestWayToFood returns a direction d, the cell next to
\* the origin in direction d is inside the board and is tagged EMPTY or FOOD
\* in the board that was passed in; the occupancy tag of the origin cell
\* itself never influences the result.
C25_StepPassableOriginIgnored ==
    PlanReturned =>
        /\ nextDir \in Direction =>
              LET step == RefStep(snake[1], nextDir)
              IN  /\ step \in RefCells(board)
                  /\ board[step.row][step.col] \in {EMPTY, FOOD}
        /\ \A t \in {EMPTY, SNAKE, FOOD} :
              findShortestWayToFood(Retagged(board, snake[1], t), snake, food) = nextDir

\* A direction was returned from an origin cell tagged SNAKE.
C25_Witness ==
    /\ PlanReturned /\ nextDir \in Direction
    /\ board[snake[1].row][snake[1].col] = SNAKE

-----------------------------------------------------------------------------
(* Reversal in the solo game *)

\* C26: in the single-player game, under any interleaving of arrow-key events
\* and ticks, the heading applied at a tick is never the opposite of the
\* heading applied at the previous tick, so a snake of length 2 or more is
\* never steered straight back into its own neck (the cell its head left on
\* the previous move, i.e. one step against the previous heading).
C26_NeverBackIntoNeck ==
    [][(TickStep /\ variant = "SOLO" /\ Len(snake) >= 2) =>
            NewHead(snake[1], direction) # snake[2]]_vars

\* A single key press never asks for the opposite of the committed heading.
C26_OneKeyNeverReverses ==
    [][(variant = "SOLO" /\ direction' # direction) =>
            NewHead(NewHead(Coord(0, 0), direction), direction') # Coord(0, 0)]_vars

-----------------------------------------------------------------------------
(* Progress of the AI snake toward the food *)

\* Length of a shortest path from the head of s to f over the cells that s
\* and the other body do not occupy, -1 if there is none.
DistTo(s, f) ==
    RefDist(Paint(Rows, Cols, s, SNAKE, userSnake, SNAKE, f), s[1], f)

DistToFood == DistTo(snake, food)

\* What the planner returns for the body s and the food f.
PlannerFor(s, f) ==
    findShortestWayToFood(Paint(Rows, Cols, s, SNAKE, userSnake, SNAKE, f), s, f)

\* C27: in the AI-only game, if at a tick food is present and the planner
\* returns a direction while the shortest passable distance from head to food
\* is d, the snake eats that food within at most d ticks, this one included,
\* dies on none of them, and the planner returns a direction on each.  As a
\* step: such a tick moves the snake without a collision; with d = 1 it eats,
\* and with d > 1 it leaves the food in place at a distance between 1 and
\* d - 1, with the timer about to be set again and a planner that returns a
\* direction for the new state.
C27_EatsWithinDistance ==
    [][(TickStep /\ variant = "AI" /\ food # NULL /\ nextDir' \in Direction) =>
          /\ DistToFood >= 1
          /\ "snake" \in changed'
          /\ IF DistToFood = 1
             THEN outcome'[1] = "grew" /\ food' = NULL
             ELSE /\ outcome'[1] = "moved" /\ food' = food
                  /\ \A after \in {snake'} :
                        /\ DistTo(after, food) >= 1
                        /\ DistTo(after, food) <= DistToFood - 1
                        /\ PlannerFor(after, food) \in Direction]_vars

\* The AI snake, two cells long or more, has moved on the planner's direction
\* and the food is still two steps or more away: the tick started three steps
\* or more from the food.
C27_Witness ==
    /\ variant = "AI" /\ outcome[1] = "moved" /\ nextDir \in Direction
    /\ Len(snake) >= 2 /\ food # NULL
    /\ DistToFood >= 2

-----------------------------------------------------------------------------
(* One food, one eater *)

Grows(i) == Len(BodyAfter(i)) > Len(Body(i))

\* C28: in the two-player and the user-vs-AI game one food item feeds at most
\* one agent: there is no tick on which both agents grow.
C28_OneEaterPerTick ==
    [][(TickStep /\ TwoAgents) => ~(Grows(1) /\ Grows(2))]_vars

\* Both agents grow exactly on the ticks on which both heads, clear of every
\* body, enter the food cell.
C28_BothGrowOnSharedCell ==
    [][(TickStep /\ TwoAgents /\ Completed) =>
          ((Grows(1) /\ Grows(2)) <=> (Eats(1) /\ Eats(2)))]_vars

-----------------------------------------------------------------------------
(* A fatal tick of the solo game *)

\* C29: in the single-player game a tick that ends in a wall or self
\* collision changes nothing: the snake body, the food, the heading and the
\* stored board are all exactly as before the tick.
C29_FatalTickChangesNothing ==
    [][(TickStep /\ variant = "SOLO" /\ outcome'[1] \in {"wall", "self"}) =>
            /\ snake' = snake /\ food' = food
            /\ direction' = direction /\ board' = board]_vars

\* A solo snake of length 2 or more has run into its own body.
C29_Witness ==
    /\ variant = "SOLO" /\ outcome[1] = "self"
    /\ Len(snake) >= 2

-----------------------------------------------------------------------------
(* Termination of the search *)

OpenKeys(openSet) == [i \in 1..Len(openSet) |-> coordKey(openSet[i].row, openSet[i].col)]

\* C30: findShortestWayToFood terminates on every finite board: each
\* coordinate is removed from the open set at most once, the open set never
\* holds two nodes with the same coordinate, a coordinate in the closed set is
\* never inserted again, and the search loop runs at most R*C iterations
\* before it returns (with the target as the last coordinate removed when a
\* direction is returned).
C30_SearchTerminates ==
    PlanReturned =>
        LET run == SearchRunOf(board, snake, food)
        IN  /\ Len(run) <= boardRows(board) * boardCols(board)
            /\ \A i, j \in 1..Len(run) : i # j => run[i].popped # run[j].popped
            /\ \A i \in 1..Len(run) :
                  /\ Distinct(OpenKeys(run[i].openSet))
                  /\ \A k \in 1..Len(run[i].openSet) :
                        OpenKeys(run[i].openSet)[k] \notin run[i].closedSet
            /\ nextDir \in Direction =>
                  run[Len(run)].popped = coordKey(food.row, food.col)

\* null was returned after the loop had removed eight coordinates or more:
\* the open set ran empty on a target that blocked cells cut off.
C30_Witness ==
    /\ PlanReturned /\ nextDir = NullDir /\ snake[1] # food
    /\ Len(SearchRunOf(board, snake, food)) >= 8

====
